---- MODULE Spec2Model ----
(***************************************************************************)
(* Genre-hierarchy aggregation engine of src/src/services/advanced-genre.ts *)
(* (first revision in the file, lines 1-473): the snapshot store           *)
(* (genreIdToGenre / genreSlugToGenre), the no-filter aggregation cache    *)
(* (cachedAggregatedCounts), calculateAggregatedCounts and the list facade *)
(* built on it: getAdvancedGenreById / BySlug, getAllAdvancedGenres,       *)
(* getAdvancedGenresHierarchy, getAdvancedGenreCount,                      *)
(* getGenreIdsWithDescendants and populateAdvancedGenres.                  *)
(*                                                                         *)
(* JavaScript values are encoded as follows.                               *)
(*   null / undefined      <<>>        (an optional value v is <<v>>)      *)
(*   genre id, book id     a positive integer                              *)
(*   author id, region id  a string ("" is the empty, falsy string)        *)
(*   Record<string, Row>   the sequence of its rows in insertion order     *)
(*                         (the order Object.values walks)                 *)
(*   Map<id, number>       a function from the key set to Nat              *)
(*   Set<id>               a set                                           *)
(* An async function runs atomically between two awaits of real I/O (the   *)
(* backing-store queries): promise continuations are microtasks and run to *)
(* exhaustion before the next I/O completion is delivered.                 *)
(***************************************************************************)
EXTENDS Integers, Sequences, FiniteSets, TLC

\* ------------------------------------------------------------------ bounds
NumGenres == 3
NumBooks == 2
MaxDbChanges == 1

GenreIds == 1..NumGenres
BookIds == 1..NumBooks
\* parentGenre of a root row (null in the backing store)
NoParent == 0
\* an id that no genre row carries (a dangling parent reference)
DanglingId == NumGenres + 1
Slots == {1, 2}

Authors == {"a1", "a2", "a3", "a4"}
\* author.year of each author row
AuthorYear(a) == IF a \in {"a1", "a2"} THEN 150 ELSE 300
\* regionId of author.locations of each author row
AuthorRegions(a) ==
  CASE a = "a1" -> {"r1"}
    [] a = "a2" -> {"r2"}
    [] a = "a3" -> {"r1", "r2"}
    [] OTHER -> {}

Null == <<>>
Some(v) == <<v>>
IsNull(o) == o = <<>>
Val(o) == o[1]

Range(s) == {s[i] : i \in DOMAIN s}

\* ------------------------------------------------------- snapshot records
\* genreIdToGenre?.[id] on a Record kept as its row sequence
HasId(rows, id) == \E i \in DOMAIN rows : rows[i].id = id
RowOf(rows, id) == rows[CHOOSE i \in DOMAIN rows : rows[i].id = id]
Ids(rows) == {rows[i].id : i \in DOMAIN rows}

\* obj[key] = row : replaces in place when the key exists, else appends
PutRow(rows, key, row) ==
  IF \E i \in DOMAIN rows : rows[i][key] = row[key]
    THEN [i \in DOMAIN rows |-> IF rows[i][key] = row[key] THEN row ELSE rows[i]]
    ELSE Append(rows, row)

RECURSIVE IndexRows(_, _, _)
IndexRows(fetched, key, acc) ==
  IF fetched = <<>> THEN acc
  ELSE IndexRows(Tail(fetched), key, PutRow(acc, key, Head(fetched)))

\* -------------------------------------------------------------- the filter
\* `x && {...}` : an absent value and the empty string are falsy, an array
\* (even an empty one) is truthy
TruthyStr(o) == ~IsNull(o) /\ Val(o) # ""
TruthyArr(o) == ~IsNull(o)

\* !params || (!authorId && !bookIds && !yearRange && !regionId)
NoFilter(params) ==
  \/ IsNull(params)
  \/ /\ ~TruthyStr(Val(params).authorId)
     /\ ~TruthyArr(Val(params).bookIds)
     /\ ~TruthyArr(Val(params).yearRange)
     /\ ~TruthyStr(Val(params).regionId)

\* { ...a, ...b } : b's keys override a's
Spread(a, b) ==
  [k \in (DOMAIN a) \cup (DOMAIN b) |-> IF k \in DOMAIN b THEN b[k] ELSE a[k]]

Empty == [k \in {} |-> <<>>]
Key(k, v) == [x \in {k} |-> v]

\* the `where` object handed to db.book.findMany
Where(params) ==
  IF IsNull(params) THEN Null
  ELSE LET p == Val(params)
           w1 == IF TruthyStr(p.authorId)
                   THEN Spread(Empty, Key("authorId", Val(p.authorId))) ELSE Empty
           w2 == IF TruthyArr(p.bookIds)
                   THEN Spread(w1, Key("id", Val(p.bookIds))) ELSE w1
           w3 == IF TruthyStr(p.regionId)
                   THEN Spread(w2, Key("author", Key("locations", Val(p.regionId))))
                   ELSE w2
           w4 == IF TruthyArr(p.yearRange)
                   THEN Spread(w3, Key("author", Key("year", Val(p.yearRange))))
                   ELSE w3
       IN Some(w4)

\* the relation filter on Book.author
AuthorMatches(f, a) ==
  /\ "locations" \in DOMAIN f => f["locations"] \in AuthorRegions(a)
  /\ "year" \in DOMAIN f =>
       /\ AuthorYear(a) >= f["year"][1]
       /\ AuthorYear(a) <= f["year"][2]

\* the backing store's evaluation of `where` on one book row
BookMatches(where, b) ==
  \/ IsNull(where)
  \/ LET w == Val(where) IN
       /\ "authorId" \in DOMAIN w => b.authorId = w["authorId"]
       /\ "id" \in DOMAIN w => b.id \in w["id"]
       /\ "author" \in DOMAIN w => AuthorMatches(w["author"], b.authorId)

\* db.book.findMany({ where, select: { id, advancedGenres: { id } } })
FindBooks(books, params) ==
  {[id |-> b.id, advancedGenres |-> b.advancedGenres] :
     b \in {x \in books : BookMatches(Where(params), x)}}

\* ------------------------------------------------------------- aggregation
\* genreToBooks.get(id) || new Set()
GenreToBooks(found, id) == {b.id : b \in {x \in found : id \in x.advancedGenres}}

\* childrenMap.get(id) || new Set(), in insertion order
ChildrenOf(rows, id) ==
  LET kids == SelectSeq(rows, LAMBDA r : r.parentGenre # NoParent /\ r.parentGenre = id)
  IN [i \in DOMAIN kids |-> kids[i].id]

\* variant: the sets start empty: new Set() for new Set(directBooks)
InitAggregatedEmpty(rows, found) == [g \in Ids(rows) |-> {}]

\* aggregatedBooks.set(genre.id, new Set(directBooks)) for every genre
InitAggregated(rows, found) == [g \in Ids(rows) |-> GenreToBooks(found, g)]

\* The call stack a recursion over the snapshot may use: a recursion deeper
\* than the number of genres revisits a genre that is still on the stack and
\* recurses for ever (RangeError: Maximum call stack size exceeded).
StackLimit(rows) == Len(rows)

\* variant: only the last child's set is folded in
FoldLastChild(agg, g, kids) ==
  IF kids = <<>> THEN agg[g] ELSE agg[g] \cup agg[kids[Len(kids)]]

\* lines 274-281: folding the children's sets into the parent's
FoldChildren(agg, g, kids) == agg[g] \cup UNION {agg[kids[i]] : i \in DOMAIN kids}

RECURSIVE ProcessGenre(_, _, _, _)
RECURSIVE ProcessEach(_, _, _, _)
\* variant: top-down: a genre folds its children before they are processed
ProcessGenreTopDown(rows, g, st, fuel) ==
  IF st.overflow \/ g \in st.processed \/ ~HasId(rows, g) THEN st
  ELSE IF fuel = 0 THEN [st EXCEPT !.overflow = TRUE]
  ELSE LET kids == ChildrenOf(rows, g)
       IN ProcessEach(rows, kids,
                      [st EXCEPT !.agg[g] = FoldChildren(st.agg, g, kids),
                                 !.processed = @ \cup {g}],
                      fuel - 1)

\* variant: a genre is marked processed before its children are visited
ProcessGenreMarkFirst(rows, g, st, fuel) ==
  IF st.overflow \/ g \in st.processed \/ ~HasId(rows, g) THEN st
  ELSE IF fuel = 0 THEN [st EXCEPT !.overflow = TRUE]
  ELSE LET kids == ChildrenOf(rows, g)
           st1 == ProcessEach(rows, kids, [st EXCEPT !.processed = @ \cup {g}], fuel - 1)
       IN IF st1.overflow THEN st1
          ELSE [st1 EXCEPT !.agg[g] = FoldChildren(st1.agg, g, kids),
                           !.folds = Append(@, g)]

\* lines 257-283; `folds` (history) lists the genres in the order in which
\* lines 272-282 ran for them
ProcessGenre(rows, g, st, fuel) ==
  IF st.overflow \/ g \in st.processed \/ ~HasId(rows, g) THEN st
  ELSE IF fuel = 0 THEN [st EXCEPT !.overflow = TRUE]
  ELSE LET kids == ChildrenOf(rows, g)
           st1 == ProcessEach(rows, kids, st, fuel - 1)
       IN IF st1.overflow THEN st1
          ELSE [st1 EXCEPT !.agg[g] = FoldChildren(st1.agg, g, kids),
                           !.processed = @ \cup {g},
                           !.folds = Append(@, g)]
\* `for (const id of ids) processGenre(id)` (lines 268-270 and 286-288)
ProcessEach(rows, ids, st, fuel) ==
  IF ids = <<>> THEN st
  ELSE ProcessEach(rows, Tail(ids), ProcessGenre(rows, Head(ids), st, fuel), fuel)

\* lines 244-288: the final aggregatedBooks, or the stack overflow
AggregatedBooks(rows, found) ==
  ProcessEach(rows, [i \in DOMAIN rows |-> rows[i].id],
              [agg |-> InitAggregated(rows, found), processed |-> {}, overflow |-> FALSE,
               folds |-> <<>>],
              StackLimit(rows))

\* aggregatedCounts.set(genreId, books.size)
CountsOf(agg) == [g \in DOMAIN agg |-> Cardinality(agg[g])]

\* ------------------------------------------------------------- the facade
\* aggregatedCounts.get(id) || 0
CountOr0(counts, id) == IF id \in DOMAIN counts THEN counts[id] ELSE 0

RECURSIVE InsertByCount(_, _, _)
\* variant: an unstable sort: a row goes before the rows of equal count
InsertBeforeEqual(sorted, row, counts) ==
  IF sorted = <<>> THEN <<row>>
  ELSE IF CountOr0(counts, Head(sorted).id) > CountOr0(counts, row.id)
    THEN <<Head(sorted)>> \o InsertByCount(Tail(sorted), row, counts)
    ELSE <<row>> \o sorted

\* Array.prototype.sort with (a, b) => countB - countA (lines 332-336):
\* stable, descending; the place of `row` among the rows sorted so far
InsertByCount(sorted, row, counts) ==
  IF sorted = <<>> THEN <<row>>
  ELSE IF CountOr0(counts, Head(sorted).id) >= CountOr0(counts, row.id)
    THEN <<Head(sorted)>> \o InsertByCount(Tail(sorted), row, counts)
    ELSE <<row>> \o sorted

RECURSIVE SortByCount(_, _, _)
SortByCount(todo, acc, counts) ==
  IF todo = <<>> THEN acc
  ELSE SortByCount(Tail(todo), InsertByCount(acc, Head(todo), counts), counts)

\* .filter(genre => !params || aggregatedCounts.get(genre.id)! > 0)
KeepGenre(params, counts, row) ==
  IsNull(params) \/ (row.id \in DOMAIN counts /\ counts[row.id] > 0)

\* variant: the DTO carries the row's stored numberOfBooks
MakeGenreDtoStored(row, n) ==
  [id |-> row.id, slug |-> row.slug, numberOfBooks |-> row.numberOfBooks]

\* makeGenreDto of { ...genre, numberOfBooks }
MakeGenreDto(row, n) == [id |-> row.id, slug |-> row.slug, numberOfBooks |-> n]

\* lines 323-337 of aggregateChildGenresToParents
ListGenres(rows, params, counts) ==
  LET kept == SelectSeq(rows, LAMBDA r : KeepGenre(params, counts, r))
      sorted == SortByCount(kept, <<>>, counts)
  IN [i \in DOMAIN sorted |-> MakeGenreDto(sorted[i], CountOr0(counts, sorted[i].id))]

\* ------------------------------------------------------ the hierarchy builder
\* Set.prototype.add on a Set kept as the sequence of its elements in
\* insertion order
AddTo(set, x) == IF x \in Range(set) THEN set ELSE Append(set, x)
RECURSIVE AddAll(_, _)
AddAll(set, xs) == IF xs = <<>> THEN set ELSE AddAll(AddTo(set, Head(xs)), Tail(xs))

\* lines 65-73: childrenMap.get(id) || new Set(), in insertion order
ChildIds(rows, id) ==
  LET kids == SelectSeq(rows, LAMBDA r : r.parentGenre # NoParent /\ r.parentGenre = id)
  IN AddAll(<<>>, [i \in DOMAIN kids |-> kids[i].id])

RECURSIVE CollectDescendants(_, _, _, _)
RECURSIVE CollectChildren(_, _, _, _, _)
\* variant: only the children themselves are collected
CollectChildrenDirect(rows, kids, st, acc, fuel) ==
  [dm |-> st.dm, folds |-> st.folds, out |-> AddAll(acc, kids), overflow |-> FALSE]

\* variant: the set stored for a genre holds the genre itself
CollectDescendantsWithSelf(rows, g, st, fuel) ==
  IF g \in DOMAIN st.dm /\ st.dm[g] # <<>>
    THEN [dm |-> st.dm, folds |-> st.folds, out |-> st.dm[g], overflow |-> FALSE]
  ELSE IF fuel = 0 THEN [dm |-> st.dm, folds |-> st.folds, out |-> <<>>, overflow |-> TRUE]
  ELSE LET r == CollectChildren(rows, ChildIds(rows, g), st, <<g>>, fuel - 1)
       IN IF r.overflow THEN r
          ELSE [dm |-> [x \in DOMAIN r.dm \cup {g} |-> IF x = g THEN r.out ELSE r.dm[x]],
                folds |-> Append(r.folds, g), out |-> r.out, overflow |-> FALSE]

\* lines 76-97: collectDescendants(g) on the descendantsMap `dm`; gives the
\* map, the set returned, and whether the call stack overflowed; `folds`
\* (history) lists the genres in the order in which lines 84-96 ran for them
CollectDescendants(rows, g, st, fuel) ==
  IF g \in DOMAIN st.dm /\ st.dm[g] # <<>>
    THEN [dm |-> st.dm, folds |-> st.folds, out |-> st.dm[g], overflow |-> FALSE]
  ELSE IF fuel = 0 THEN [dm |-> st.dm, folds |-> st.folds, out |-> <<>>, overflow |-> TRUE]
  ELSE LET r == CollectChildren(rows, ChildIds(rows, g), st, <<>>, fuel - 1)
       IN IF r.overflow THEN r
          ELSE [dm |-> [x \in DOMAIN r.dm \cup {g} |-> IF x = g THEN r.out ELSE r.dm[x]],
                folds |-> Append(r.folds, g), out |-> r.out, overflow |-> FALSE]
\* lines 87-93: the loop over the children of one genre
CollectChildren(rows, kids, st, acc, fuel) ==
  IF kids = <<>>
    THEN [dm |-> st.dm, folds |-> st.folds, out |-> acc, overflow |-> FALSE]
  ELSE LET r == CollectDescendants(rows, Head(kids), st, fuel)
       IN IF r.overflow THEN r
          ELSE CollectChildren(rows, Tail(kids), r,
                               AddAll(AddTo(acc, Head(kids)), r.out), fuel)

RECURSIVE CollectAll(_, _, _)
\* lines 100-102: collectDescendants(genre.id) for every genre
CollectAll(rows, todo, st) ==
  IF todo = <<>> \/ st.overflow THEN st
  ELSE CollectAll(rows, Tail(todo),
                  CollectDescendants(rows, Head(todo).id, st, StackLimit(rows)))

\* lines 55-105: buildDescendantMap()
BuildDescendantMap(rows) ==
  CollectAll(rows, rows, [dm |-> [g \in Ids(rows) |-> <<>>], folds |-> <<>>,
                          out |-> <<>>, overflow |-> FALSE])

RECURSIVE ExpandIds(_, _, _)
\* variant: the descendants of each input id, without the id itself
ExpandIdsNoSelf(dm, genreIds, acc) ==
  IF genreIds = <<>> THEN acc
  ELSE LET g == Head(genreIds)
       IN ExpandIds(dm, Tail(genreIds),
                    IF g \in DOMAIN dm THEN AddAll(acc, dm[g]) ELSE acc)

\* lines 124-135: each input id, then its descendants, into resultSet
ExpandIds(dm, genreIds, acc) ==
  IF genreIds = <<>> THEN acc
  ELSE LET g == Head(genreIds)
           a1 == AddTo(acc, g)
       IN ExpandIds(dm, Tail(genreIds),
                    IF g \in DOMAIN dm THEN AddAll(a1, dm[g]) ELSE a1)

\* lines 117-137 of getGenreIdsWithDescendants: the list returned, or the
\* stack overflow of buildDescendantMap, with the map built on the way
GenreIdsWithDescendants(rows, genreIds) ==
  IF genreIds = <<>> THEN [out |-> <<>>, overflow |-> FALSE, built |-> Null]
  ELSE LET b == BuildDescendantMap(rows)
       IN IF b.overflow THEN [out |-> <<>>, overflow |-> TRUE, built |-> Null]
          ELSE [out |-> ExpandIds(b.dm, genreIds, <<>>), overflow |-> FALSE,
                built |-> Some([dm |-> b.dm, folds |-> b.folds])]

\* ------------------------------------------------------- the hierarchy tree
\* lines 391-407: idToNode, one node per row fetched
TreeNodes(live, counts) ==
  [g \in Ids(live) |->
     [id |-> g, slug |-> RowOf(live, g).slug,
      numberOfBooks |-> CountOr0(counts, g), children |-> <<>>]]

\* variant: only a null parent makes a root
IsTreeRootNullOnly(live, row) == row.parentGenre = NoParent

\* lines 413-424: `!parentId`, or idToNode has no node for it
IsTreeRoot(live, row) ==
  row.parentGenre = NoParent \/ ~HasId(live, row.parentGenre)

RECURSIVE AttachNodes(_, _, _)
\* lines 411-428: each node is pushed to roots or to its parent's children.
\* A node is an object shared by reference: the forest is the list of root
\* ids with the node table.
AttachNodes(live, todo, forest) ==
  IF todo = <<>> THEN forest
  ELSE LET g == Head(todo)
       IN AttachNodes(live, Tail(todo),
            IF IsTreeRoot(live, g)
              THEN [forest EXCEPT !.roots = Append(@, g.id)]
              ELSE IF g.parentGenre \in DOMAIN forest.nodes
                THEN [forest EXCEPT !.nodes[g.parentGenre].children = Append(@, g.id)]
                ELSE forest)

\* lines 389-430 of getAdvancedGenresHierarchy
BuildForest(live, counts) ==
  AttachNodes(live, live, [roots |-> <<>>, nodes |-> TreeNodes(live, counts)])

\* ------------------------------------------------------------------ state
VARIABLES
  dbGenres,                \* backing store: the advanced-genre rows, in row order
  dbBooks,                 \* backing store: the book rows
  genreIdToGenre,          \* snapshot store, by id
  genreSlugToGenre,        \* snapshot store, by slug
  cachedAggregatedCounts,  \* the no-filter aggregation cache
  calls,                   \* the facade calls in flight, one frame per slot
  rets,                    \* history: the map the last no-filter aggregation
                           \* returned since the last populate() completed
  dbChanges,               \* history: changes the backing store has undergone
  dbGenreCount,            \* backing store: the number of rows of the genre table
  nodeEnv,                 \* env.NODE_ENV
  cacheFile,               \* the file .cache/advanced-genres.json
  lastPop                  \* history: what the last completed populate() installed

\* what the process reads and never writes: the backing store and NODE_ENV
dbVars == <<dbGenres, dbBooks, dbChanges, dbGenreCount, nodeEnv>>
storeVars == <<genreIdToGenre, genreSlugToGenre>>
\* what the process writes besides its calls' frames
procVars == <<genreIdToGenre, genreSlugToGenre, cachedAggregatedCounts, rets,
              cacheFile, lastPop>>
vars == <<dbGenres, dbBooks, genreIdToGenre, genreSlugToGenre,
          cachedAggregatedCounts, calls, rets, dbChanges,
          dbGenreCount, nodeEnv, cacheFile, lastPop>>

SlugOf(id) == <<"slug", id>>
\* the numberOfBooks column of an advanced-genre row: a stored figure that no
\* aggregation over the books of the model can produce
StoredCount == NumBooks + 7
GenreRow(id, parent) ==
  [id |-> id, slug |-> SlugOf(id), parentGenre |-> parent, numberOfBooks |-> StoredCount]
BookRow(id, author, genres) == [id |-> id, authorId |-> author, advancedGenres |-> genres]

\* a frame: the call's operation, where it is suspended, its arguments, the
\* backing store's pending answer, its result, and (history) how the
\* aggregation inside it came to its map, whether the call ran populate()
\* (`pop`), the error it raised, the order in which the aggregation folded
\* the genres (`folds`) and the descendants map the call built (`built`);
\* `alias`: the Map the call returned is the very object the cache holds
IdleFrame ==
  [op |-> "idle", pc |-> "idle", params |-> Null, resp |-> Null,
   status |-> "none", counts |-> Null, list |-> <<>>,
   via |-> "none", cacheSeen |-> Null, snap |-> <<>>, found |-> {}, agg |-> <<>>,
   arg |-> Null, row |-> Null, result |-> Null, error |-> Null, pop |-> "none",
   live |-> <<>>, folds |-> <<>>, built |-> Null, alias |-> FALSE]

\* the machine a synchronous section runs on: the module-level variables and
\* the running call's frame; `reassigned`: the section has assigned
\* cachedAggregatedCounts, so the object it held is the cache no longer
Machine(c, f) ==
  [slot |-> c, f |-> f, ids |-> genreIdToGenre, slugs |-> genreSlugToGenre,
   cache |-> cachedAggregatedCounts, rets |-> rets,
   env |-> nodeEnv, file |-> cacheFile, lastPop |-> lastPop, reassigned |-> FALSE]

\* history: a no-filter aggregation returned `counts`. `anchored`: the cache
\* is present and no other no-filter aggregation has a book query outstanding.
\* `n`: how many have returned since the last populate() completed (up to 2).
\* `afterAnchored`: the return before this one was anchored.
NoteReturn(m, counts) ==
  IF ~NoFilter(m.f.params) THEN m.rets
  ELSE LET anchored ==
             /\ ~IsNull(m.cache)
             /\ \A c \in Slots :
                  (calls[c].pc \in {"bookQuery", "bookAnswer"} /\ NoFilter(calls[c].params))
                    => c = m.slot
           n == IF IsNull(m.rets) THEN 1 ELSE 2
       IN Some([map |-> counts, anchored |-> anchored, n |-> n,
                afterAnchored |-> ~IsNull(m.rets) /\ Val(m.rets).anchored])

\* calculateAggregatedCounts returns `counts` to its caller, which runs on:
\* the call itself (line 301), lines 323-337 of aggregateChildGenresToParents,
\* lines 20-28 and 41-49 of the lookups, or line 370 of the hierarchy (its
\* own query of the genre rows)
CalcReturns(m, counts, via) ==
  LET f1 == [m.f EXCEPT !.pc = "done", !.status = "ok", !.counts = Some(counts),
                        !.via = via, !.resp = Null]
      f2 == CASE m.f.op = "listAll" ->
                   [f1 EXCEPT !.list = ListGenres(Val(m.ids), m.f.params, counts)]
               [] m.f.op \in {"getById", "getBySlug"} ->
                   [f1 EXCEPT !.result =
                      Some(MakeGenreDto(Val(m.f.row), CountOr0(counts, Val(m.f.row).id)))]
               [] m.f.op = "hierarchy" ->
                   [f1 EXCEPT !.pc = "treeFetch", !.status = "none"]
               [] OTHER -> f1
  IN [m EXCEPT !.f = f2, !.rets = NoteReturn(m, counts)]

\* the call rejects with `err`: the error propagates through every caller
Throws(m, via, err) ==
  [m EXCEPT !.f = [m.f EXCEPT !.pc = "done", !.status = "thrown", !.via = via,
                              !.resp = Null, !.error = Some(err)]]

\* variant: the cache serves only calls made without a params object
CacheHitNoParams(params, cache) == IsNull(params) /\ ~IsNull(cache)

\* variant: the cache is never consulted
CacheHitNever(params, cache) == FALSE

\* variant: a present cache serves every call, filtered or not
CacheHitAnyParams(params, cache) == ~IsNull(cache)

\* lines 157-163
CacheHit(params, cache) == NoFilter(params) /\ ~IsNull(cache)

\* history: a no-filter aggregation starts
NoteStart(m) ==
  IF NoFilter(m.f.params) THEN [m EXCEPT !.lastPop = Some([Val(@) EXCEPT !.calcStarted = TRUE])]
  ELSE m

\* lines 157-200: the cached map, or the book query is issued
EnterCalc(m) ==
  IF CacheHit(m.f.params, m.cache)
    THEN CalcReturns(NoteStart([m EXCEPT !.f.cacheSeen = m.cache]), Val(m.cache), "hit")
    ELSE NoteStart([m EXCEPT !.f.pc = "bookQuery", !.f.cacheSeen = m.cache])

\* variant: every aggregation stores its result, filtered or not
StoreCacheAlways(params, cache, counts) == Some(counts)

\* lines 296-299
StoreCache(params, cache, counts) ==
  IF NoFilter(params) THEN Some(counts) ELSE cache

\* lines 296-301: `cachedAggregatedCounts = aggregatedCounts` and
\* `return aggregatedCounts` hand out one and the same Map
Aliased(params) == NoFilter(params)

\* history: a no-filter aggregation stores its map
NoteStore(m) ==
  IF NoFilter(m.f.params)
    THEN [m EXCEPT !.lastPop = Some([Val(@) EXCEPT !.stores = IF @ = 0 THEN 1 ELSE 2])]
    ELSE m

\* lines 221-301: the book query answered with `found`
Compute(m, found) ==
  LET rows == Val(m.ids)
      st == AggregatedBooks(rows, found)
      counts == CountsOf(st.agg)
      m1 == [m EXCEPT !.f.snap = rows, !.f.found = found]
  IN IF st.overflow THEN Throws(m1, "overflow", "RangeError")
     ELSE CalcReturns(NoteStore([m1 EXCEPT !.f.agg = st.agg, !.f.folds = st.folds,
                                           !.cache = StoreCache(m.f.params, m.cache, counts),
                                           !.reassigned = NoFilter(m.f.params),
                                           !.f.alias = Aliased(m.f.params)]),
                      counts, "computed")

\* lines 210-215
EmptyCounts(rows) == [g \in Ids(rows) |-> 0]

\* variant: a connectivity failure always gives the zero map
FallbackZeroOnly(m, code) ==
  IF code \in {"P1001", "P1000"}
    THEN CalcReturns(m, EmptyCounts(Val(m.ids)), "fallbackZero")
    ELSE Throws(m, "rethrown", code)

\* variant: every failure of the book query is recovered from
FallbackAnyError(m, code) ==
  IF ~IsNull(m.cache)
    THEN CalcReturns(m, Val(m.cache), "fallbackCache")
    ELSE CalcReturns(m, EmptyCounts(Val(m.ids)), "fallbackZero")

\* lines 201-219: the book query failed with error.code `code`
Fallback(m, code) ==
  IF code \in {"P1001", "P1000"}
    THEN IF ~IsNull(m.cache)
           THEN CalcReturns(m, Val(m.cache), "fallbackCache")
           ELSE CalcReturns(m, EmptyCounts(Val(m.ids)), "fallbackZero")
    ELSE Throws(m, "rethrown", code)

\* history: populate() completes having installed `fetched`. `dropped`: it
\* found the cache present; `quiet`: no no-filter aggregation has a book
\* query outstanding; `calcStarted`: a no-filter aggregation has started
\* since; `stores`: how many have stored their map since (up to 2)
NotePopulate(m, fetched) ==
  Some([rows |-> fetched,
        ids |-> IndexRows(fetched, "id", <<>>),
        slugs |-> IndexRows(fetched, "slug", <<>>),
        dropped |-> ~IsNull(m.cache),
        quiet |-> \A c \in Slots :
                    ~(calls[c].pc \in {"bookQuery", "bookAnswer"} /\ NoFilter(calls[c].params)),
        calcStarted |-> FALSE, stores |-> 0])

\* variant: populate() leaves a cache of zero counts
InstalledZeroCache(m, fetched) ==
  [m EXCEPT !.ids = Some(IndexRows(fetched, "id", <<>>)),
            !.slugs = Some(IndexRows(fetched, "slug", <<>>)),
            !.cache = Some(EmptyCounts(fetched)),
            !.reassigned = TRUE,
            !.rets = Null,
            !.lastPop = NotePopulate(m, fetched)]

\* variant: populate() leaves the cache as it is
InstalledKeepCache(m, fetched) ==
  [m EXCEPT !.ids = Some(IndexRows(fetched, "id", <<>>)),
            !.slugs = Some(IndexRows(fetched, "slug", <<>>)),
            !.rets = Null,
            !.lastPop = NotePopulate(m, fetched)]

\* variant: populate() replaces the slug map only when it is unset
InstalledKeepSlugs(m, fetched) ==
  [m EXCEPT !.ids = Some(IndexRows(fetched, "id", <<>>)),
            !.slugs = IF IsNull(m.slugs) THEN Some(IndexRows(fetched, "slug", <<>>))
                      ELSE m.slugs,
            !.cache = Null,
            !.reassigned = TRUE,
            !.rets = Null,
            !.lastPop = NotePopulate(m, fetched)]

\* lines 463-472: populate() with the rows fetched
Installed(m, fetched) ==
  [m EXCEPT !.ids = Some(IndexRows(fetched, "id", <<>>)),
            !.slugs = Some(IndexRows(fetched, "slug", <<>>)),
            !.cache = Null,
            !.reassigned = TRUE,
            !.rets = Null,
            !.lastPop = NotePopulate(m, fetched)]

\* genreIdToGenre?.[id] (line 15) and genreSlugToGenre?.[slug] (line 36)
Lookup(m) ==
  LET hit == IF m.f.op = "getById"
               THEN SelectSeq(Val(m.ids), LAMBDA r : r.id = m.f.arg)
               ELSE SelectSeq(Val(m.slugs), LAMBDA r : r.slug = m.f.arg)
  IN IF hit = <<>> THEN Null ELSE Some(hit[1])

\* lines 117-137: getGenreIdsWithDescendants once the store is populated
Descend(m) ==
  LET r == GenreIdsWithDescendants(Val(m.ids), m.f.arg)
  IN IF r.overflow THEN Throws([m EXCEPT !.f.snap = Val(m.ids)], "overflow", "RangeError")
     ELSE [m EXCEPT !.f.pc = "done", !.f.status = "ok", !.f.result = Some(r.out),
                    !.f.snap = Val(m.ids), !.f.built = r.built]

\* what a facade operation does once the store is populated
Body(m) ==
  CASE m.f.op = "populate" -> [m EXCEPT !.f.pc = "done", !.f.status = "ok"]
    [] m.f.op \in {"getById", "getBySlug"} ->
         LET r == Lookup(m)
         IN IF IsNull(r) THEN [m EXCEPT !.f.pc = "done", !.f.status = "ok"]
            ELSE EnterCalc([m EXCEPT !.f.row = r])
    [] m.f.op = "descendants" -> Descend(m)
    [] OTHER -> EnterCalc(m)

\* JSON.stringify(genres) as written to the file, and JSON.parse of the
\* file's text: the text of an array of rows, or text that does not parse
Stringify(rows) == [valid |-> TRUE, rows |-> rows]
Truncated == [valid |-> FALSE, rows |-> <<>>]

\* lines 445-455 of populateAdvancedGenres: in development the rows are read
\* from the file when it exists, else get() is awaited
EnterPopulate(m) ==
  IF m.env = "development" /\ ~IsNull(m.file)
    THEN IF Val(m.file).valid
           THEN Body(Installed([m EXCEPT !.f.pop = "file"], Val(m.file).rows))
           ELSE Throws([m EXCEPT !.f.pop = "file"], "populate", "SyntaxError")
    ELSE [m EXCEPT !.f.pc = "popFetch", !.f.pop = "fetch"]

\* variant: an empty record set counts as not populated
EnterWhenEmpty(m) ==
  IF m.f.op = "populate" \/ IsNull(m.ids) \/ Val(m.ids) = <<>>
    THEN EnterPopulate(m)
    ELSE Body(m)

\* `if (!genreIdToGenre) await populateAdvancedGenres()` at the head of every
\* facade operation; populate() itself always populates
Enter(m) ==
  IF m.f.op = "populate" \/ IsNull(m.ids)
    THEN EnterPopulate(m)
    ELSE Body(m)

\* variant: a failed write leaves the store reset: the maps emptied and the
\* cache dropped before the file is written
WriteFileAfterReset(m, rows, fs) ==
  IF m.env # "development" THEN m
  ELSE CASE fs = "ok" -> [m EXCEPT !.file = Some(Stringify(rows))]
         [] fs = "failKeep" ->
              Throws([m EXCEPT !.ids = Some(<<>>), !.slugs = Some(<<>>), !.cache = Null],
                     "populate", "EIO")
         [] OTHER ->
              Throws([m EXCEPT !.ids = Some(<<>>), !.slugs = Some(<<>>), !.cache = Null,
                               !.file = Some(Truncated)],
                     "populate", "EIO")

\* lines 456-460: in development the rows fetched are written to the file;
\* mkdirSync or writeFileSync may throw, leaving the file as it was or cut short
WriteFile(m, rows, fs) ==
  IF m.env # "development" THEN m
  ELSE CASE fs = "ok" -> [m EXCEPT !.file = Some(Stringify(rows))]
         [] fs = "failKeep" -> Throws(m, "populate", "EIO")
         [] OTHER -> Throws([m EXCEPT !.file = Some(Truncated)], "populate", "EIO")

\* the section's effects; a Map held by another call stops being the cache
\* when the section has assigned cachedAggregatedCounts
Commit(c, m) ==
  /\ calls' = [s \in Slots |->
                IF s = c THEN m.f
                ELSE IF m.reassigned THEN [calls[s] EXCEPT !.alias = FALSE]
                ELSE calls[s]]
  /\ genreIdToGenre' = m.ids
  /\ genreSlugToGenre' = m.slugs
  /\ cachedAggregatedCounts' = m.cache
  /\ rets' = m.rets
  /\ cacheFile' = m.file
  /\ lastPop' = m.lastPop

\* ---------------------------------------------------------------- actions
\* a caller invokes calculateAggregatedCounts(params)
StartCalc(c, params) ==
  /\ calls[c].pc = "idle"
  /\ Commit(c, Enter(Machine(c, [IdleFrame EXCEPT !.op = "calc", !.params = params])))
  /\ UNCHANGED dbVars

\* getAllAdvancedGenres(locale, params) = aggregateChildGenresToParents
StartList(c, params) ==
  /\ calls[c].pc = "idle"
  /\ Commit(c, Enter(Machine(c, [IdleFrame EXCEPT !.op = "listAll", !.params = params])))
  /\ UNCHANGED dbVars

\* POST /reset-cache reaches populateAdvancedGenres()
StartPopulate(c) ==
  /\ calls[c].pc = "idle"
  /\ Commit(c, Enter(Machine(c, [IdleFrame EXCEPT !.op = "populate"])))
  /\ UNCHANGED dbVars

\* getAdvancedGenreById(id) and getAdvancedGenreBySlug(slug)
StartLookup(c, op, key) ==
  /\ calls[c].pc = "idle"
  /\ Commit(c, Enter(Machine(c, [IdleFrame EXCEPT !.op = op, !.arg = key])))
  /\ UNCHANGED dbVars

\* getGenreIdsWithDescendants(genreIds)
StartDescendants(c, genreIds) ==
  /\ calls[c].pc = "idle"
  /\ Commit(c, Enter(Machine(c, [IdleFrame EXCEPT !.op = "descendants", !.arg = genreIds])))
  /\ UNCHANGED dbVars

\* getAdvancedGenresHierarchy()
StartHierarchy(c) ==
  /\ calls[c].pc = "idle"
  /\ Commit(c, Enter(Machine(c, [IdleFrame EXCEPT !.op = "hierarchy"])))
  /\ UNCHANGED dbVars

\* the backing store answers the hierarchy's db.advancedGenre.findMany
AnswerTree(c, ok) ==
  /\ calls[c].pc = "treeFetch"
  /\ calls' = [calls EXCEPT ![c].pc = "treeAnswer",
                            ![c].resp = IF ok THEN Some([kind |-> "rows", rows |-> dbGenres])
                                        ELSE Some([kind |-> "error", code |-> "P2010"])]
  /\ UNCHANGED <<dbVars, procVars>>

\* lines 380-430: the forest is built from the rows fetched and the counts
ResumeTree(c) ==
  /\ calls[c].pc = "treeAnswer"
  /\ LET r == Val(calls[c].resp)
         m == Machine(c, [calls[c] EXCEPT !.resp = Null])
     IN IF r.kind = "error" THEN Commit(c, Throws(m, "tree", r.code))
        ELSE Commit(c, [m EXCEPT !.f.pc = "done", !.f.status = "ok", !.f.live = r.rows,
                                 !.f.result = Some(BuildForest(r.rows, Val(m.f.counts)))])
  /\ UNCHANGED dbVars

\* getAdvancedGenreCount(): the size of the id map, or the count query
StartCount(c) ==
  /\ calls[c].pc = "idle"
  /\ LET m == Machine(c, [IdleFrame EXCEPT !.op = "getCount"])
     IN IF ~IsNull(m.ids)
          THEN Commit(c, [m EXCEPT !.f.pc = "done", !.f.status = "ok",
                                   !.f.result = Some(Len(Val(m.ids)))])
          ELSE Commit(c, [m EXCEPT !.f.pc = "countQuery"])
  /\ UNCHANGED dbVars

\* the backing store answers db.genre.count()
AnswerCount(c, ok) ==
  /\ calls[c].pc = "countQuery"
  /\ calls' = [calls EXCEPT ![c].pc = "countAnswer",
                            ![c].resp = IF ok THEN Some([kind |-> "count", n |-> dbGenreCount])
                                        ELSE Some([kind |-> "error", code |-> "P2010"])]
  /\ UNCHANGED <<dbVars, procVars>>

\* getAdvancedGenreCount() settles with the count query
ResumeCount(c) ==
  /\ calls[c].pc = "countAnswer"
  /\ LET r == Val(calls[c].resp)
         m == Machine(c, [calls[c] EXCEPT !.resp = Null])
     IN IF r.kind = "error" THEN Commit(c, Throws(m, "count", r.code))
        ELSE Commit(c, [m EXCEPT !.f.pc = "done", !.f.status = "ok",
                                 !.f.result = Some(r.n)])
  /\ UNCHANGED dbVars

\* the backing store answers get(): the rows, or an error
AnswerGet(c, ok) ==
  /\ calls[c].pc = "popFetch"
  /\ calls' = [calls EXCEPT ![c].pc = "popAnswer",
                            ![c].resp = IF ok THEN Some([kind |-> "rows", rows |-> dbGenres])
                                        ELSE Some([kind |-> "error", code |-> "P2010"])]
  /\ UNCHANGED <<dbVars, procVars>>

\* populate() resumes after `await get()`, and so does whoever awaited it;
\* `fs` is the outcome of the file write that development mode attempts
ResumePopulate(c, fs) ==
  /\ calls[c].pc = "popAnswer"
  /\ fs # "ok" => (nodeEnv = "development" /\ Val(calls[c].resp).kind = "rows")
  /\ LET r == Val(calls[c].resp)
         m == Machine(c, [calls[c] EXCEPT !.resp = Null])
     IN IF r.kind = "error" THEN Commit(c, Throws(m, "populate", r.code))
        ELSE LET m1 == WriteFile(m, r.rows, fs)
             IN IF m1.f.status = "thrown" THEN Commit(c, m1)
                ELSE Commit(c, Body(Installed(m1, r.rows)))
  /\ UNCHANGED dbVars

\* the backing store answers db.book.findMany: the books, or an error code
AnswerBooks(c, code) ==
  /\ calls[c].pc = "bookQuery"
  /\ calls' = [calls EXCEPT ![c].pc = "bookAnswer",
                            ![c].resp =
                               IF code = "ok"
                                 THEN Some([kind |-> "rows",
                                            rows |-> FindBooks(dbBooks, calls[c].params)])
                                 ELSE Some([kind |-> "error", code |-> code])]
  /\ UNCHANGED <<dbVars, procVars>>

\* calculateAggregatedCounts resumes after `await db.book.findMany`
ResumeCalc(c) ==
  /\ calls[c].pc = "bookAnswer"
  /\ LET r == Val(calls[c].resp)
         m == Machine(c, [calls[c] EXCEPT !.resp = Null])
     IN IF r.kind = "rows" THEN Commit(c, Compute(m, r.rows))
        ELSE Commit(c, Fallback(m, r.code))
  /\ UNCHANGED dbVars

\* the caller has its result; the slot is free again
Finish(c) ==
  /\ calls[c].pc = "done"
  /\ calls' = [calls EXCEPT ![c] = IdleFrame]
  /\ UNCHANGED <<dbVars, procVars>>

\* the value a caller writes into a map it was given
Touched == NumBooks + 1

\* the caller of calculateAggregatedCounts sets an entry of the Map it was
\* given (once); a Map that is the cache's object is the cache's entry too
MutateReturned(c, g) ==
  /\ calls[c].op = "calc"
  /\ calls[c].pc = "done"
  /\ calls[c].status = "ok"
  /\ g \in DOMAIN Val(calls[c].counts)
  /\ \A x \in DOMAIN Val(calls[c].counts) : Val(calls[c].counts)[x] # Touched
  /\ calls' = [calls EXCEPT ![c].counts = Some([Val(@) EXCEPT ![g] = Touched])]
  /\ cachedAggregatedCounts' =
       IF calls[c].alias THEN Some([Val(cachedAggregatedCounts) EXCEPT ![g] = Touched])
       ELSE cachedAggregatedCounts
  /\ UNCHANGED <<dbVars, genreIdToGenre, genreSlugToGenre, rets, cacheFile, lastPop>>

\* the backing store changes under the process: a book's tag is added or removed
DbRetag(b, g) ==
  /\ dbChanges < MaxDbChanges
  /\ dbChanges' = dbChanges + 1
  /\ dbBooks' = {IF x.id = b
                   THEN [x EXCEPT !.advancedGenres =
                           IF g \in @ THEN @ \ {g} ELSE @ \cup {g}]
                   ELSE x : x \in dbBooks}
  /\ UNCHANGED <<dbGenres, dbGenreCount, nodeEnv, procVars, calls>>

\* the backing store changes under the process: the parent sync sets a genre
\* row's parentGenre to null or to a genre's id (it makes no cycle check)
DbReparent(g, p) ==
  /\ dbChanges < MaxDbChanges
  /\ dbChanges' = dbChanges + 1
  /\ dbGenres' = [i \in DOMAIN dbGenres |->
                    IF dbGenres[i].id = g THEN [dbGenres[i] EXCEPT !.parentGenre = p]
                    ELSE dbGenres[i]]
  /\ dbGenres' # dbGenres
  /\ UNCHANGED <<dbBooks, dbGenreCount, nodeEnv, procVars, calls>>

\* the backing store changes under the process: the Airtable sync deletes a
\* genre row, and with it the row's links to books; rows that name it as
\* their parent keep the id
DbDeleteGenre(g) ==
  /\ dbChanges < MaxDbChanges
  /\ dbChanges' = dbChanges + 1
  /\ \E i \in DOMAIN dbGenres : dbGenres[i].id = g
  /\ dbGenres' = SelectSeq(dbGenres, LAMBDA r : r.id # g)
  /\ dbBooks' = {[x EXCEPT !.advancedGenres = @ \ {g}] : x \in dbBooks}
  /\ UNCHANGED <<dbGenreCount, nodeEnv, procVars, calls>>

\* ---------------------------------------------------------- specifications
Codes == {"ok", "P1001", "P1000", "P2010"}
ParentRefs == {NoParent} \cup GenreIds \cup {DanglingId}

NoParams == [authorId |-> Null, bookIds |-> Null, yearRange |-> Null, regionId |-> Null]
\* the filter values the calls are drawn from
AuthorArgs == {Null, Some(""), Some("a1")}
BookIdArgs == {Null, Some({}), Some({1})}
YearArgs == {Null, Some(<<100, 200>>)}
RegionArgs == {Null, Some("r1")}
AllParams ==
  {Null} \cup {Some([authorId |-> a, bookIds |-> b, yearRange |-> y, regionId |-> r]) :
                 a \in AuthorArgs, b \in BookIdArgs, y \in YearArgs, r \in RegionArgs}
FewParams ==
  {Null, Some(NoParams), Some([NoParams EXCEPT !.authorId = Some("a1")])}

Unstarted ==
  /\ calls = [c \in Slots |-> IdleFrame]
  /\ rets = Null
  /\ dbChanges = 0
  /\ cachedAggregatedCounts = Null

\* a production deployment: no snapshot file is read or written
Production ==
  /\ nodeEnv = "production"
  /\ cacheFile = Null
  /\ dbGenreCount = NumGenres

\* the store as populate() leaves it
Populated ==
  /\ genreIdToGenre = Some(IndexRows(dbGenres, "id", <<>>))
  /\ genreSlugToGenre = Some(IndexRows(dbGenres, "slug", <<>>))
  /\ lastPop = Some([rows |-> dbGenres,
                     ids |-> IndexRows(dbGenres, "id", <<>>),
                     slugs |-> IndexRows(dbGenres, "slug", <<>>),
                     dropped |-> FALSE, quiet |-> TRUE, calcStarted |-> FALSE,
                     stores |-> 0])
  /\ Production

\* The process as it starts: nothing populated, a chain of genres in the
\* backing store, one book on each of its two ends.
Init ==
  /\ dbGenres = [i \in GenreIds |-> GenreRow(i, IF i = 1 THEN NoParent ELSE i - 1)]
  /\ dbBooks = {BookRow(b, IF b = 1 THEN "a1" ELSE "a2",
                        IF b = 1 THEN {NumGenres} ELSE {1}) : b \in BookIds}
  /\ genreIdToGenre = Null
  /\ genreSlugToGenre = Null
  /\ lastPop = Null
  /\ Production
  /\ Unstarted

Next ==
  \/ \E c \in Slots, params \in FewParams : StartCalc(c, params)
  \/ \E c \in Slots : StartPopulate(c)
  \/ \E c \in Slots, ok \in BOOLEAN : AnswerGet(c, ok)
  \/ \E c \in Slots : ResumePopulate(c, "ok")
  \/ \E c \in Slots, code \in {"ok", "P1001", "P2010"} : AnswerBooks(c, code)
  \/ \E c \in Slots : ResumeCalc(c)
  \/ \E c \in Slots : Finish(c)
  \/ \E b \in BookIds, g \in GenreIds : DbRetag(b, g)
  \/ \E g \in GenreIds, p \in {NoParent} \cup GenreIds : DbReparent(g, p)

Spec == Init /\ [][Next]_vars

\* Aggregation as a function of its inputs: every parent relation over the
\* genre ids (dangling and cyclic ones included) and every tagging of the
\* books, on a populated store, one call at a time.
InitAgg ==
  /\ \E p \in [GenreIds -> ParentRefs] :
       dbGenres \in {[i \in GenreIds |-> GenreRow(i, p[i])],
                     [i \in GenreIds |-> GenreRow(NumGenres + 1 - i, p[NumGenres + 1 - i])]}
  /\ dbBooks \in {{BookRow(b, "a1", t[b]) : b \in BookIds} : t \in [BookIds -> SUBSET GenreIds]}
  /\ Populated
  /\ Unstarted

NextAgg ==
  \/ \E params \in FewParams : StartCalc(1, params)
  \/ \E params \in FewParams : StartList(1, params)
  \/ AnswerBooks(1, "ok")
  \/ ResumeCalc(1)
  \/ Finish(1)

SpecAgg == InitAgg /\ [][NextAgg]_vars

\* The facade under every outcome of its queries: a store not yet populated,
\* in production or in development (where the snapshot file is absent, cut
\* short, or left by an earlier run with other rows), over an empty or a
\* chained genre table, two calls at a time.
StaleRows == <<GenreRow(1, NoParent)>>
FileStates == {Null, Some(Truncated), Some(Stringify(StaleRows))}
LookupIds == {1, DanglingId}
FsOutcomes == {"ok", "failKeep", "failCut"}

InitFacade ==
  /\ dbGenres \in {<<>>, [i \in GenreIds |-> GenreRow(i, IF i = 1 THEN NoParent ELSE i - 1)]}
  /\ dbBooks = {BookRow(b, "a1", {1}) : b \in BookIds}
  /\ dbGenreCount \in {Len(dbGenres), NumGenres + 2}
  /\ nodeEnv \in {"production", "development"}
  /\ cacheFile \in IF nodeEnv = "development" THEN FileStates ELSE {Null}
  /\ genreIdToGenre = Null
  /\ genreSlugToGenre = Null
  /\ lastPop = Null
  /\ Unstarted

NextFacade ==
  \/ \E c \in Slots, id \in LookupIds : StartLookup(c, "getById", id)
  \/ \E c \in Slots, id \in LookupIds : StartLookup(c, "getBySlug", SlugOf(id))
  \/ \E c \in Slots : StartList(c, Null)
  \/ \E c \in Slots : StartHierarchy(c)
  \/ \E c \in Slots : StartCount(c)
  \/ \E c \in Slots : StartPopulate(c)
  \/ \E c \in Slots, ok \in BOOLEAN : AnswerGet(c, ok)
  \/ \E c \in Slots, fs \in FsOutcomes : ResumePopulate(c, fs)
  \/ \E c \in Slots, code \in {"ok", "P1000", "P2010", "P2024"} : AnswerBooks(c, code)
  \/ \E c \in Slots : ResumeCalc(c)
  \/ \E c \in Slots, ok \in BOOLEAN : AnswerTree(c, ok)
  \/ \E c \in Slots : ResumeTree(c)
  \/ \E c \in Slots, ok \in BOOLEAN : AnswerCount(c, ok)
  \/ \E c \in Slots : ResumeCount(c)
  \/ \E c \in Slots : Finish(c)

SpecFacade == InitFacade /\ [][NextFacade]_vars

\* The hierarchy operations as functions of their inputs: every parent
\* relation over the genre ids in the snapshot, in both row orders, the genre
\* table possibly re-parented since, every list of up to two ids.
IdLists ==
  LET ids == GenreIds \cup {DanglingId}
  IN {<<>>} \cup {<<a>> : a \in ids} \cup {<<a, b>> : a \in ids, b \in ids}

InitHier ==
  /\ \E p \in [GenreIds -> ParentRefs] :
       dbGenres \in {[i \in GenreIds |-> GenreRow(i, p[i])],
                     [i \in GenreIds |-> GenreRow(NumGenres + 1 - i, p[NumGenres + 1 - i])]}
  /\ dbBooks = {BookRow(b, "a1", {NumGenres}) : b \in BookIds}
  /\ Populated
  /\ Unstarted

NextHier ==
  \/ StartHierarchy(1)
  \/ AnswerBooks(1, "ok")
  \/ ResumeCalc(1)
  \/ AnswerTree(1, TRUE)
  \/ ResumeTree(1)
  \/ \E genreIds \in IdLists : StartDescendants(1, genreIds)
  \/ Finish(1)
  \/ \E g \in GenreIds, p \in {NoParent} \cup GenreIds : DbReparent(g, p)

SpecHier == InitHier /\ [][NextHier]_vars

\* The store and the cache while the genre table shrinks: no-filter
\* aggregations and forced populate()s, two calls at a time, the book query
\* answered or failing on the connection, a genre row deleted under them.
NextRace ==
  \/ \E c \in Slots : StartCalc(c, Null)
  \/ \E c \in Slots : StartPopulate(c)
  \/ \E c \in Slots : AnswerGet(c, TRUE)
  \/ \E c \in Slots : ResumePopulate(c, "ok")
  \/ \E c \in Slots, code \in {"ok", "P1001"} : AnswerBooks(c, code)
  \/ \E c \in Slots : ResumeCalc(c)
  \/ \E c \in Slots : Finish(c)
  \/ \E g \in GenreIds : DbDeleteGenre(g)

SpecRace == Init /\ [][NextRace]_vars

\* The maps handed to callers: no-filter aggregations and forced
\* populate()s, two calls at a time, the book query answered or failing on
\* the connection, and callers that write into the map they were given.
NextAlias ==
  \/ \E c \in Slots : StartCalc(c, Null)
  \/ \E c \in Slots : StartPopulate(c)
  \/ \E c \in Slots : AnswerGet(c, TRUE)
  \/ \E c \in Slots : ResumePopulate(c, "ok")
  \/ \E c \in Slots, code \in {"ok", "P1001"} : AnswerBooks(c, code)
  \/ \E c \in Slots : ResumeCalc(c)
  \/ \E c \in Slots : Finish(c)
  \/ \E c \in Slots, g \in GenreIds : MutateReturned(c, g)

SpecAlias == Init /\ [][NextAlias]_vars

\* The two traversals side by side, as functions of their inputs: every
\* parent relation over the genre ids (dangling and cyclic ones included),
\* both row orders, every tagging of the books; one no-filter aggregation and
\* one expansion of a single id at a time.
SingleIds == {<<a>> : a \in GenreIds \cup {DanglingId}}

NextTraverse ==
  \/ StartCalc(1, Null)
  \/ AnswerBooks(1, "ok")
  \/ ResumeCalc(1)
  \/ Finish(1)
  \/ \E genreIds \in SingleIds : StartDescendants(2, genreIds)
  \/ Finish(2)

SpecTraverse == InitAgg /\ [][NextTraverse]_vars

\* ----------------------------------------------------------------- claims
\* The hierarchy as the parent references define it, independently of the
\* traversals above: the strict ancestors of `id` among the rows.
RECURSIVE AncestorsOf(_, _, _)
AncestorsOf(rows, id, fuel) ==
  IF fuel = 0 \/ ~HasId(rows, id) THEN {}
  ELSE LET p == RowOf(rows, id).parentGenre
       IN IF p = NoParent \/ ~HasId(rows, p) THEN {}
          ELSE {p} \cup AncestorsOf(rows, p, fuel - 1)
Ancestors(rows, id) == AncestorsOf(rows, id, Len(rows))
\* g and every genre below it
Subtree(rows, g) == {g} \cup {c \in Ids(rows) : g \in Ancestors(rows, c)}
\* the books of `found` tagged directly with g
DirectBooks(found, g) == {b.id : b \in {x \in found : g \in x.advancedGenres}}
\* the books of `found` tagged with g or a genre below it
SubtreeBooks(rows, found, g) ==
  {b.id : b \in {x \in found : x.advancedGenres \cap Subtree(rows, g) # {}}}

\* the parent relation of the rows `rows` has no cycle
RECURSIVE ReachesRoot(_, _, _)
ReachesRoot(rows, id, fuel) ==
  IF ~HasId(rows, id) THEN TRUE
  ELSE IF RowOf(rows, id).parentGenre = NoParent THEN TRUE
  ELSE IF fuel = 0 THEN FALSE
  ELSE ReachesRoot(rows, RowOf(rows, id).parentGenre, fuel - 1)
Acyclic(rows) == \A i \in DOMAIN rows : ReachesRoot(rows, rows[i].id, Len(rows))

\* a call whose aggregation ran on a book query's rows and returned its map
Computed(f) == f.pc = "done" /\ f.status = "ok" /\ f.via = "computed"

\* C1: after calculateAggregatedCounts computes, the aggregated book set of
\* every genre contains the aggregated book set of each of its direct and
\* transitive children, so its count is at least theirs; a book tagged with
\* one genre only is in the set of that genre and of every ancestor of it.
C1_Monotone ==
  \A s \in Slots : Computed(calls[s]) =>
    LET f == calls[s]
        n == Val(f.counts)
    IN /\ Acyclic(f.snap)
       /\ \A c \in Ids(f.snap) : \A g \in Ancestors(f.snap, c) :
            /\ f.agg[c] \subseteq f.agg[g]
            /\ n[g] >= n[c]
       /\ \A b \in f.found : \A d \in Ids(f.snap) :
            b.advancedGenres = {d} =>
              \A a \in {d} \cup Ancestors(f.snap, d) : b.id \in f.agg[a]

\* C1 witness: the chain 1 <- 2 <- 3 with one book tagged on 3 only, counted
\* once at 3, at 2 and at 1.
C1_Witness ==
  \E s \in Slots :
    /\ Computed(calls[s])
    /\ Len(calls[s].snap) >= 3
    /\ RowOf(calls[s].snap, 1).parentGenre = NoParent
    /\ RowOf(calls[s].snap, 2).parentGenre = 1
    /\ RowOf(calls[s].snap, 3).parentGenre = 2
    /\ \E b \in calls[s].found : b.advancedGenres = {3} /\ calls[s].agg[1] = {b.id}
    /\ \A g \in {1, 2, 3} : Val(calls[s].counts)[g] = 1

\* C2: the aggregated count of a genre is the number of distinct books tagged
\* with it or with a genre below it (a union, never a sum).
C2_UnionNotSum ==
  \A s \in Slots : Computed(calls[s]) =>
    \A g \in Ids(calls[s].snap) :
      Val(calls[s].counts)[g] =
        Cardinality(SubtreeBooks(calls[s].snap, calls[s].found, g))

\* C2 witness: 2 and 3 are children of 1; one book is tagged with both and
\* counts once at 1, and with a second book on 3 only the parent counts 2.
C2_Witness ==
  \E s \in Slots :
    /\ Computed(calls[s])
    /\ Len(calls[s].snap) >= 3
    /\ RowOf(calls[s].snap, 1).parentGenre = NoParent
    /\ RowOf(calls[s].snap, 2).parentGenre = 1
    /\ RowOf(calls[s].snap, 3).parentGenre = 1
    /\ \E b1, b2 \in calls[s].found :
         /\ b1.advancedGenres = {2, 3}
         /\ b2.advancedGenres = {3}
    /\ Val(calls[s].counts)[1] = 2
    /\ Val(calls[s].counts)[2] = 1
    /\ Val(calls[s].counts)[3] = 2

\* C3: a genre that no other genre of the snapshot names as its parent has
\* exactly its directly associated books (of those the query returned) as its
\* aggregated set, and their number as its count.
C3_Leaf ==
  \A s \in Slots : Computed(calls[s]) =>
    \A g \in Ids(calls[s].snap) :
      (\A i \in DOMAIN calls[s].snap :
         calls[s].snap[i].id # g => calls[s].snap[i].parentGenre # g)
      => /\ calls[s].agg[g] = DirectBooks(calls[s].found, g)
         /\ Val(calls[s].counts)[g] = Cardinality(DirectBooks(calls[s].found, g))

\* C3 witness: two childless genres under one parent, one with every book the
\* query returned, one with none (count 0).
C3_Witness ==
  \E s \in Slots :
    /\ Computed(calls[s])
    /\ Len(calls[s].snap) >= 3
    /\ RowOf(calls[s].snap, 2).parentGenre = 1
    /\ RowOf(calls[s].snap, 3).parentGenre = 1
    /\ Cardinality(calls[s].found) >= 2
    /\ \A b \in calls[s].found : b.advancedGenres = {1, 2}
    /\ Val(calls[s].counts)[2] = Cardinality(calls[s].found)
    /\ Val(calls[s].counts)[3] = 0

\* Filtering as a function of its inputs: every author and every single tag
\* for each book, every combination of the filter values, every outcome of
\* the book query, on a populated chain of genres, one listing at a time.
InitFilter ==
  /\ dbGenres = [i \in GenreIds |-> GenreRow(i, IF i = 1 THEN NoParent ELSE i - 1)]
  /\ \E a \in [BookIds -> Authors], t \in [BookIds -> GenreIds] :
       dbBooks = {BookRow(b, a[b], {t[b]}) : b \in BookIds}
  /\ Populated
  /\ Unstarted

NextFilter ==
  \/ \E params \in AllParams : StartList(1, params)
  \/ \E code \in Codes : AnswerBooks(1, code)
  \/ ResumeCalc(1)
  \/ Finish(1)

SpecFilter == InitFilter /\ [][NextFilter]_vars

\* a listing that returned its DTOs
Listed(f) == f.op = "listAll" /\ f.pc = "done" /\ f.status = "ok"
ListedIds(f) == {f.list[i].id : i \in DOMAIN f.list}
\* no filter was supplied: params is absent, or every field of it is
AllAbsent(params) == IsNull(params) \/ Val(params) = NoParams
\* the place of genre `id` in the snapshot's iteration order
PlaceOf(rows, id) == CHOOSE i \in DOMAIN rows : rows[i].id = id

\* C4: an unfiltered listing (params absent, or a params object with all four
\* fields absent) returns one DTO for every genre of the snapshot, the ones
\* with an aggregated count of 0 included.
C4_UnfilteredListsAll ==
  \A s \in Slots : (Listed(calls[s]) /\ AllAbsent(calls[s].params)) =>
    /\ ListedIds(calls[s]) = Ids(Val(genreIdToGenre))
    /\ Len(calls[s].list) = Len(Val(genreIdToGenre))

\* C6: the list is ordered by numberOfBooks, non-increasing, and genres of
\* equal count keep the relative order the snapshot iterates them in.
C6_SortedStable ==
  \A s \in Slots : Listed(calls[s]) =>
    \A i, j \in DOMAIN calls[s].list : i < j =>
      LET a == calls[s].list[i]
          b == calls[s].list[j]
      IN /\ a.numberOfBooks >= b.numberOfBooks
         /\ a.numberOfBooks = b.numberOfBooks =>
              PlaceOf(Val(genreIdToGenre), a.id) < PlaceOf(Val(genreIdToGenre), b.id)

\* C6 witness: three genres listed, the last of the snapshot first (it has
\* the most books), the two tied ones after it in snapshot order.
C6_Witness ==
  \E s \in Slots :
    /\ Listed(calls[s])
    /\ Len(calls[s].list) = 3
    /\ calls[s].list[1].id = 3 /\ calls[s].list[1].numberOfBooks = 2
    /\ calls[s].list[2].id = 1 /\ calls[s].list[2].numberOfBooks = 1
    /\ calls[s].list[3].id = 2 /\ calls[s].list[3].numberOfBooks = 1

\* The filter as section 4.3 of the specification words it: a book is in
\* scope when it satisfies every predicate that is present.
InScope(params, b) ==
  \/ IsNull(params)
  \/ LET p == Val(params) IN
       /\ TruthyStr(p.authorId) => b.authorId = Val(p.authorId)
       /\ TruthyArr(p.bookIds) => b.id \in Val(p.bookIds)
       /\ TruthyArr(p.yearRange) =>
            /\ AuthorYear(b.authorId) >= Val(p.yearRange)[1]
            /\ AuthorYear(b.authorId) <= Val(p.yearRange)[2]
       /\ TruthyStr(p.regionId) => Val(p.regionId) \in AuthorRegions(b.authorId)
ScopeOf(params) == {b \in dbBooks : InScope(params, b)}

\* C5: with at least one filter parameter supplied (and the book query
\* answered), listAll returns exactly the genres of the snapshot whose
\* aggregated count over the books in the filter's scope is positive, none
\* of them with numberOfBooks 0.
C5_FilteredListing ==
  \A s \in Slots :
    (Listed(calls[s]) /\ calls[s].via = "computed" /\ ~NoFilter(calls[s].params)) =>
      /\ ListedIds(calls[s]) =
           {g \in Ids(Val(genreIdToGenre)) :
              SubtreeBooks(Val(genreIdToGenre), ScopeOf(calls[s].params), g) # {}}
      /\ \A i \in DOMAIN calls[s].list : calls[s].list[i].numberOfBooks > 0

\* C7: the books the aggregation counts are exactly the books that satisfy
\* every filter predicate that is present.
C7_Conjunction ==
  \A s \in Slots : Computed(calls[s]) =>
    {b.id : b \in calls[s].found} = {b.id : b \in ScopeOf(calls[s].params)}

\* slot s takes a step of a calculateAggregatedCounts call with a filter, in
\* the call's own code (lines 157-301): the invalidation that populate() does
\* when the call's lazy initialisation runs it is populate()'s, not the call's
FilteredStep(s) ==
  /\ calls'[s] # calls[s]
  /\ calls[s].pc # "popAnswer"
  /\ calls'[s].op = "calc"
  /\ ~NoFilter(calls'[s].params)

\* C8: on every path of a calculateAggregatedCounts call with a filter
\* parameter present, the call leaves the no-filter cache as it is and the
\* map it returns is not the cache's contents.
C8_FilteredIgnoresCache ==
  [][\A s \in Slots : FilteredStep(s) =>
       /\ cachedAggregatedCounts' = cachedAggregatedCounts
       /\ (calls'[s].pc = "done" /\ calls'[s].status = "ok")
            => calls'[s].via \in {"computed", "fallbackZero"}]_vars

\* slot s starts a no-filter calculateAggregatedCounts call
NoFilterStart(s) ==
  /\ calls[s].pc = "idle"
  /\ calls'[s].op = "calc"
  /\ NoFilter(calls'[s].params)

\* C9: a no-filter calculateAggregatedCounts call made while the cache is
\* present returns at once a map equal to the cache: no book query is issued
\* and the cache is unchanged.
C9_CacheHit ==
  [][\A s \in Slots : (NoFilterStart(s) /\ ~IsNull(cachedAggregatedCounts)) =>
       /\ calls'[s].pc = "done"
       /\ calls'[s].status = "ok"
       /\ calls'[s].counts = cachedAggregatedCounts
       /\ cachedAggregatedCounts' = cachedAggregatedCounts]_vars

\* C9 witness: a no-filter call was served from a cache holding a positive
\* count, after the backing store had changed.
C9_Witness ==
  \E s \in Slots :
    /\ calls[s].op = "calc" /\ calls[s].pc = "done" /\ calls[s].via = "hit"
    /\ NoFilter(calls[s].params)
    /\ calls[s].counts = cachedAggregatedCounts
    /\ \E g \in DOMAIN Val(cachedAggregatedCounts) : Val(cachedAggregatedCounts)[g] > 0
    /\ dbChanges > 0

\* a no-filter aggregation returns in this step, after an earlier one and
\* with no populate() completed in between
SecondReturn == ~IsNull(rets) /\ ~IsNull(rets') /\ rets' # rets

\* C10 (as claimed): two no-filter calls that return one after the other with
\* no populate() completing in between give equal maps.
C10_ConsecutiveEqual ==
  [][SecondReturn => Val(rets').map = Val(rets).map]_vars

\* C10 (amended): they give equal maps when, at the first one's return, the
\* cache is present and no other no-filter aggregation has a book query
\* outstanding.
C10_AnchoredEqual ==
  [][(SecondReturn /\ Val(rets).anchored) => Val(rets').map = Val(rets).map]_vars

\* C10 witness: a second no-filter call has returned after an anchored one,
\* with a positive count, although the backing store has changed.
C10_Witness ==
  /\ ~IsNull(rets)
  /\ Val(rets).n = 2
  /\ Val(rets).afterAnchored
  /\ \E g \in DOMAIN Val(rets).map : Val(rets).map[g] > 0
  /\ dbChanges > 0

\* populate() completes in this step in slot s: by itself, or as the lazy
\* initialisation of the call in s
PopulateCompletes(s) ==
  /\ calls'[s] # calls[s]
  /\ calls[s].pc \in {"idle", "popAnswer"}
  /\ calls'[s].pop # "none"
  /\ calls'[s].pc # "popFetch"
  /\ ~(calls'[s].status = "thrown" /\ calls'[s].via = "populate")

\* the cache goes from absent to present in this step
CacheFilled == IsNull(cachedAggregatedCounts) /\ ~IsNull(cachedAggregatedCounts')

\* a no-filter aggregation stores its result in this step
NoFilterStores ==
  \E s \in Slots :
    /\ calls[s].pc = "bookAnswer"
    /\ NoFilter(calls[s].params)
    /\ calls'[s].via = "computed"
    /\ cachedAggregatedCounts' = calls'[s].counts

\* slot s starts, in this step, the first no-filter aggregation since the
\* last populate() completed
FirstNoFilterStart(s) ==
  /\ calls'[s] # calls[s]
  /\ calls[s].pc \in {"idle", "popAnswer"}
  /\ ~IsNull(lastPop')
  /\ Val(lastPop').calcStarted
  /\ IsNull(lastPop) \/ ~Val(lastPop).calcStarted \/ PopulateCompletes(s)

\* C11 (as claimed): the first no-filter call started after a populate()
\* completed issues a fresh book query.
C11_FirstCallQueries ==
  [][\A s \in Slots : FirstNoFilterStart(s) => calls'[s].pc = "bookQuery"]_vars

\* C11 (amended): every successful populate() leaves the cache absent when
\* it completes; the cache goes from absent to present only when a no-filter
\* aggregation stores its result; and the first no-filter call started after
\* a populate() that completed with no no-filter aggregation suspended on its
\* book query issues a fresh book query.
C11_PopulateInvalidates ==
  [][/\ \A s \in Slots : PopulateCompletes(s) => IsNull(cachedAggregatedCounts')
     /\ CacheFilled => NoFilterStores
     /\ \A s \in Slots : (FirstNoFilterStart(s) /\ Val(lastPop').quiet)
                            => calls'[s].pc = "bookQuery"]_vars

\* C11 witness: a forced populate() dropped a cache while no aggregation was
\* suspended, and the first no-filter call started after it has its book
\* query outstanding with the cache still absent.
C11_Witness ==
  \E s \in Slots :
    /\ calls[s].op = "calc" /\ NoFilter(calls[s].params)
    /\ calls[s].pc = "bookQuery" /\ calls[s].pop = "none"
    /\ ~IsNull(lastPop)
    /\ Val(lastPop).dropped /\ Val(lastPop).quiet /\ Val(lastPop).calcStarted
    /\ IsNull(cachedAggregatedCounts)

\* the book query of the call in slot s has failed with `code`, and the call
\* resumes in this step
QueryFailed(s, codes) ==
  /\ calls[s].pc = "bookAnswer"
  /\ calls'[s].pc # "bookAnswer"
  /\ Val(calls[s].resp).kind = "error"
  /\ Val(calls[s].resp).code \in codes

\* C12: when the book query fails with P1001 or P1000 the aggregation does
\* not raise: it returns a map equal to the cache if the cache is present,
\* else the map with 0 for exactly the genre ids of the snapshot; the cache
\* is left as it was.
C12_ConnectivityFallback ==
  [][\A s \in Slots : QueryFailed(s, {"P1001", "P1000"}) =>
       /\ calls'[s].status = "ok"
       /\ calls'[s].counts =
            IF ~IsNull(cachedAggregatedCounts) THEN cachedAggregatedCounts
            ELSE Some([g \in Ids(Val(genreIdToGenre)) |-> 0])
       /\ cachedAggregatedCounts' = cachedAggregatedCounts]_vars

\* C12 witness: a listing whose book query failed with a connectivity error
\* was served the cached map, which holds a positive count.
C12_Witness ==
  \E s \in Slots :
    /\ calls[s].pc = "done" /\ calls[s].via = "fallbackCache"
    /\ calls[s].counts = cachedAggregatedCounts
    /\ \E g \in DOMAIN Val(calls[s].counts) : Val(calls[s].counts)[g] > 0

\* C13: when the book query fails with an error that is not a connectivity
\* error, the call that awaits the aggregation (a lookup, a listing, the
\* hierarchy) raises that same error, and the snapshot maps and the cache
\* are unchanged.
C13_OtherErrorsRaised ==
  [][\A s \in Slots : QueryFailed(s, {"P2010", "P2024"}) =>
       /\ calls'[s].pc = "done"
       /\ calls'[s].status = "thrown"
       /\ calls'[s].error = Some(Val(calls[s].resp).code)
       /\ UNCHANGED <<genreIdToGenre, genreSlugToGenre, cachedAggregatedCounts>>]_vars

\* C13 witness: the hierarchy raised the book query's error P2024 while the
\* cache, stored meanwhile by another call, is present.
C13_Witness ==
  \E s \in Slots :
    /\ calls[s].op = "hierarchy" /\ calls[s].pc = "done"
    /\ calls[s].status = "thrown" /\ calls[s].via = "rethrown"
    /\ calls[s].error = Some("P2024")
    /\ ~IsNull(cachedAggregatedCounts)

\* slot s starts a getById or getBySlug in this step
LookupStarts(s) ==
  /\ calls[s].pc = "idle"
  /\ calls'[s].op \in {"getById", "getBySlug"}

\* C14: a lookup runs populate() exactly when no populate() has ever
\* succeeded; after one has, even with no records, no lookup runs it again.
C14_LazyPopulateOnce ==
  [][\A s \in Slots : LookupStarts(s) =>
       ((calls'[s].pop # "none") <=> IsNull(lastPop))]_vars

\* C14 witness: a lookup on a store populated with the empty record set has
\* returned without running populate().
C14_Witness ==
  \E s \in Slots :
    /\ calls[s].op \in {"getById", "getBySlug"}
    /\ calls[s].pc = "done" /\ calls[s].status = "ok" /\ calls[s].pop = "none"
    /\ genreIdToGenre = Some(<<>>)

\* C15: a populate() that fetches the rows the previous populate() fetched
\* leaves the id map and the slug map as they were and the cache absent.
C15_RepopulateIdempotent ==
  [][\A s \in Slots :
       (PopulateCompletes(s) /\ ~IsNull(lastPop) /\ Val(lastPop').rows = Val(lastPop).rows) =>
         /\ genreIdToGenre' = genreIdToGenre
         /\ genreSlugToGenre' = genreSlugToGenre
         /\ IsNull(cachedAggregatedCounts')]_vars

\* C15 witness: in development a forced populate() has read back the file a
\* previous populate() wrote, over a cache that was present, and the maps
\* hold the genre table's rows.
C15_Witness ==
  \E s \in Slots :
    /\ calls[s].op = "populate" /\ calls[s].pc = "done" /\ calls[s].status = "ok"
    /\ calls[s].pop = "file"
    /\ dbGenres # <<>>
    /\ cacheFile = Some(Stringify(dbGenres))
    /\ Val(lastPop).dropped
    /\ genreIdToGenre = Some(IndexRows(dbGenres, "id", <<>>))
    /\ IsNull(cachedAggregatedCounts)

\* C16 (as claimed): in development, when get() has answered with the rows,
\* populate() completes with those rows installed whatever becomes of the
\* file write, and the call that ran it does not fail on it.
C16_WriteFailureTolerated ==
  [][\A s \in Slots :
       (/\ calls[s].pc = "popAnswer" /\ calls'[s].pc # "popAnswer"
        /\ nodeEnv = "development"
        /\ Val(calls[s].resp).kind = "rows") =>
         /\ ~(calls'[s].status = "thrown" /\ calls'[s].via = "populate")
         /\ genreIdToGenre' = Some(IndexRows(Val(calls[s].resp).rows, "id", <<>>))
         /\ genreSlugToGenre' = Some(IndexRows(Val(calls[s].resp).rows, "slug", <<>>))]_vars

\* C19 (as claimed): getCount runs neither populate() nor the aggregation
\* and writes nothing; it returns the size of the id map when the store is
\* populated, else the number of advanced-genre rows of the backing store.
C19_CountOfAdvancedGenres ==
  [][\A s \in Slots : (calls'[s].op = "getCount" /\ calls'[s] # calls[s]) =>
       /\ UNCHANGED procVars
       /\ calls'[s].pc \in {"countQuery", "countAnswer", "done"}
       /\ (calls'[s].pc = "done" /\ calls'[s].status = "ok") =>
            calls'[s].result =
              Some(IF calls[s].pc = "idle" THEN Len(Val(genreIdToGenre))
                   ELSE Len(dbGenres))]_vars

\* the lookup of slot s is made in this step: the store is populated and the
\* record under the key is taken
LookupMade(s) ==
  /\ calls'[s] # calls[s]
  /\ calls[s].pc \in {"idle", "popAnswer"}
  /\ calls'[s].op \in {"getById", "getBySlug"}
  /\ calls'[s].pc # "popFetch"
  /\ ~(calls'[s].status = "thrown" /\ calls'[s].via = "populate")

\* the record of the snapshot `rows` under the key of frame f, if any
RecordFor(rows, f) ==
  {r \in Range(rows) : IF f.op = "getById" THEN r.id = f.arg ELSE r.slug = f.arg}

\* a lookup that found its record and has returned
Found(f) ==
  /\ f.op \in {"getById", "getBySlug"}
  /\ f.pc = "done" /\ f.status = "ok" /\ ~IsNull(f.row)

\* C20: a lookup with no record under its key returns an absent result at
\* once, without raising and without the aggregation; a lookup with a record
\* r returns the DTO of r with numberOfBooks the count that the no-filter
\* aggregation gave r.id, not r's stored figure; getById(r.id) and
\* getBySlug(r.slug) given the same map return the same DTO.
C20_LookupDto ==
  [][/\ \A s \in Slots : LookupMade(s) =>
          LET hit == RecordFor(Val(genreIdToGenre'), calls'[s])
          IN IF hit = {}
               THEN /\ calls'[s].pc = "done" /\ calls'[s].status = "ok"
                    /\ IsNull(calls'[s].result) /\ IsNull(calls'[s].counts)
                    /\ calls'[s].via = "none"
               ELSE /\ calls'[s].row \in {Some(r) : r \in hit}
                    /\ calls'[s].pc = "bookQuery" \/ calls'[s].via = "hit"
     /\ \A s \in Slots : Found(calls'[s]) =>
          LET f == calls'[s]
              r == Val(f.row)
          IN /\ f.result = Some([id |-> r.id, slug |-> r.slug,
                                  numberOfBooks |-> CountOr0(Val(f.counts), r.id)])
             /\ Val(f.result).numberOfBooks # r.numberOfBooks
     /\ \A a, b \in Slots :
          (/\ Found(calls'[a]) /\ Found(calls'[b])
           /\ calls'[a].op = "getById" /\ calls'[b].op = "getBySlug"
           /\ calls'[a].row = calls'[b].row
           /\ calls'[a].counts = calls'[b].counts)
            => calls'[a].result = calls'[b].result]_vars

\* C20 witness: getById(1) and getBySlug of the same record have both
\* returned its DTO with a positive aggregated count.
C20_Witness ==
  \E a, b \in Slots :
    /\ Found(calls[a]) /\ Found(calls[b])
    /\ calls[a].op = "getById" /\ calls[b].op = "getBySlug"
    /\ calls[a].row = calls[b].row
    /\ calls[a].result = calls[b].result
    /\ Val(calls[a].result).numberOfBooks > 0

\* how many times x occurs in the list
Occurrences(list, x) == Cardinality({i \in DOMAIN list : list[i] = x})

RECURSIVE ReachableFrom(_, _, _)
\* the nodes of forest t reached from node r through children lists
ReachableFrom(t, r, fuel) ==
  IF fuel = 0 THEN {r}
  ELSE {r} \cup UNION {ReachableFrom(t, c, fuel - 1) : c \in Range(t.nodes[r].children)}

\* a hierarchy call that returned its forest
TreeBuilt(f) == f.op = "hierarchy" /\ f.pc = "done" /\ f.status = "ok"

\* C17: in the forest of getHierarchyTree a genre's node is in the root list
\* (once) exactly when its parent reference is null or names no genre row;
\* otherwise it is once in the children of its parent's node and in no
\* other list. When the parent relation is acyclic every genre is reachable
\* from exactly one root.
C17_Forest ==
  \A s \in Slots : TreeBuilt(calls[s]) =>
    LET live == calls[s].live
        t == Val(calls[s].result)
        ids == Ids(live)
        orphan(g) == \/ RowOf(live, g).parentGenre = NoParent
                     \/ RowOf(live, g).parentGenre \notin ids
    IN /\ DOMAIN t.nodes = ids
       /\ \A g \in ids :
            /\ Occurrences(t.roots, g) = IF orphan(g) THEN 1 ELSE 0
            /\ \A p \in ids :
                 Occurrences(t.nodes[p].children, g) =
                   IF ~orphan(g) /\ p = RowOf(live, g).parentGenre THEN 1 ELSE 0
       /\ Acyclic(live) =>
            \A g \in ids :
              Cardinality({r \in Range(t.roots) : g \in ReachableFrom(t, r, Len(live))}) = 1

\* C17 witness: a forest with a root whose parent reference dangles and a
\* node two levels below a root.
C17_Witness ==
  \E s \in Slots :
    /\ TreeBuilt(calls[s])
    /\ LET live == calls[s].live
           t == Val(calls[s].result)
       IN /\ \E r \in Range(t.roots) : RowOf(live, r).parentGenre = DanglingId
          /\ \E r \in Range(t.roots), c \in Ids(live) :
               /\ c \in Range(t.nodes[r].children)
               /\ t.nodes[c].children # <<>>

\* C18: getGenreIdsWithDescendants returns, without duplicates, each input
\* id with the snapshot genres below it (those that reach it through parent
\* references); the empty list gives the empty list and an id unknown to
\* the snapshot gives only itself.
C18_Descendants ==
  \A s \in Slots :
    (calls[s].op = "descendants" /\ calls[s].pc = "done" /\ calls[s].status = "ok") =>
      LET rows == Val(genreIdToGenre)
          out == Val(calls[s].result)
          below(g) == IF g \in Ids(rows)
                        THEN {c \in Ids(rows) : g \in Ancestors(rows, c)} ELSE {}
      IN /\ Cardinality(Range(out)) = Len(out)
         /\ Range(out) = UNION {{g} \cup below(g) : g \in Range(calls[s].arg)}
         /\ calls[s].arg = <<>> => out = <<>>

\* C18 witness: for an input of a genre with a grandchild and an unknown
\* id, the call returned the genre, its child, its grandchild and the
\* unknown id.
C18_Witness ==
  \E s \in Slots :
    /\ calls[s].op = "descendants" /\ calls[s].pc = "done" /\ calls[s].status = "ok"
    /\ calls[s].arg = <<1, DanglingId>>
    /\ Range(Val(calls[s].result)) = {1, 2, 3, DanglingId}
    /\ RowOf(Val(genreIdToGenre), 3).parentGenre = 2
    /\ RowOf(Val(genreIdToGenre), 2).parentGenre = 1

\* ------------------------------------------------------------------ C21
\* slot s holds a call that has run populate() to its end
Populator(s) ==
  /\ calls[s].pc = "done"
  /\ calls[s].status = "ok"
  /\ calls[s].pop = "fetch"

\* C21: two calls that both saw the store unpopulated and both ran populate()
\* interleave freely; whenever one of the two maps is set so is the other,
\* and both hold exactly the rows of one fetch, the one installed last: every
\* row of it, in its order, and no row of another fetch.
C21_MapsFromOneFetch ==
  /\ IsNull(genreIdToGenre) <=> IsNull(genreSlugToGenre)
  /\ ~IsNull(genreIdToGenre) =>
       /\ ~IsNull(lastPop)
       /\ Val(genreIdToGenre) = Val(lastPop).rows
       /\ Val(genreSlugToGenre) = Val(lastPop).rows
       /\ \A g \in Ids(Val(genreIdToGenre)) :
            RowOf(Val(genreSlugToGenre), g) = RowOf(Val(genreIdToGenre), g)

\* C21 witness: both slots started on the unpopulated store, both ran
\* populate() to its end, the genre table changed between the two fetches,
\* and the maps hold the rows of the fetch installed last.
C21_Witness ==
  /\ \A s \in Slots : Populator(s) /\ calls[s].op = "calc"
  /\ dbChanges = 1
  /\ Val(genreIdToGenre) = dbGenres
  /\ Val(genreSlugToGenre) = dbGenres
  /\ \E s \in Slots : calls[s].snap # <<>> /\ calls[s].snap # dbGenres

\* ------------------------------------------------------------------ C22
\* the cache is present although no no-filter aggregation has started since
\* the last populate() completed
StaleCache ==
  /\ ~IsNull(cachedAggregatedCounts)
  /\ ~IsNull(lastPop)
  /\ ~Val(lastPop).calcStarted

\* no aggregation is suspended, with or without a filter
NoneSuspended == \A s \in Slots : calls[s].pc \in {"idle", "done"}

\* C22: a cache that is present after a populate() with no aggregation
\* started since can only come from a no-filter aggregation that was
\* suspended on its book query when that populate() completed; after a
\* populate() that completed with none suspended the cache stays absent until
\* a no-filter aggregation starts, so the next no-filter call finds it absent,
\* issues its own book query and computes its counts from the answer.
C22_StaleOnlyFromSuspended ==
  /\ StaleCache => ~Val(lastPop).quiet
  /\ \A s \in Slots :
       (/\ ~IsNull(lastPop) /\ Val(lastPop).quiet
        /\ NoFilter(calls[s].params)
        /\ calls[s].pc \in {"bookQuery", "bookAnswer"})
         => /\ Val(lastPop).calcStarted
            /\ IsNull(calls[s].cacheSeen)

\* C22 witness: the cache is present, nothing is suspended and no no-filter
\* aggregation has started since the last populate(); the cache was stored
\* by a call that is still there, and its counts are not those of the books
\* as they now are.
C22_Witness ==
  /\ StaleCache
  /\ NoneSuspended
  /\ dbChanges = 1
  /\ \E s \in Slots :
       /\ Computed(calls[s]) /\ NoFilter(calls[s].params)
       /\ calls[s].counts = cachedAggregatedCounts
       /\ calls[s].snap = Val(genreIdToGenre)
  /\ Val(cachedAggregatedCounts) #
       CountsOf(AggregatedBooks(Val(genreIdToGenre), FindBooks(dbBooks, Null)).agg)

\* ------------------------------------------------------------------ C23
\* slot s stores the map of its no-filter aggregation in this step
StoresBy(s) ==
  /\ calls[s].pc = "bookAnswer"
  /\ NoFilter(calls[s].params)
  /\ calls'[s].via = "computed"

\* slot s reaches, in this step, the cache check of a filtered aggregation
FilteredStart(s) ==
  /\ calls'[s] # calls[s]
  /\ calls[s].pc \in {"idle", "popAnswer"}
  /\ calls'[s].op = "calc"
  /\ ~NoFilter(calls'[s].params)
  /\ calls'[s].pc # "popFetch"
  /\ ~(calls'[s].status = "thrown" /\ calls'[s].via = "populate")

\* C23 (as claimed): between one populate() completing and the next the
\* no-filter aggregation is computed from a book query and stored at most
\* once, however the no-filter calls interleave; a filtered call issues its
\* book query on every call.
C23_StoredOnce ==
  [][/\ ~IsNull(lastPop') => Val(lastPop').stores <= 1
     /\ \A s \in Slots : FilteredStart(s) => calls'[s].pc = "bookQuery"]_vars

\* C23 (amended): a no-filter aggregation computes and stores only if it
\* found the cache absent at its cache check, and one that starts while the
\* cache is present issues no query and stores nothing, so calls made one
\* after the other store at most once between two populate()s; a filtered
\* call issues its book query on every call.
C23_StoredByMissesOnly ==
  [][\A s \in Slots :
       /\ StoresBy(s) => IsNull(calls[s].cacheSeen)
       /\ (NoFilterStart(s) /\ ~IsNull(cachedAggregatedCounts)) =>
            /\ calls'[s].pc = "done"
            /\ ~IsNull(lastPop) /\ Val(lastPop').stores = Val(lastPop).stores
       /\ FilteredStart(s) => calls'[s].pc = "bookQuery"]_vars

\* C23 witness: two no-filter calls that both found the cache absent have
\* both stored since the last populate(), the second over the first.
C23_Witness ==
  /\ ~IsNull(lastPop) /\ Val(lastPop).stores = 2
  /\ \A s \in Slots : /\ Computed(calls[s]) /\ NoFilter(calls[s].params)
                      /\ IsNull(calls[s].cacheSeen)
  /\ \E s \in Slots : calls[s].counts = cachedAggregatedCounts

\* ------------------------------------------------------------------ C24
\* a getGenreIdsWithDescendants call that built the descendants map
MapBuilt(f) ==
  /\ f.op = "descendants" /\ f.pc = "done" /\ f.status = "ok"
  /\ ~IsNull(f.built)

\* C24: on a snapshot with an acyclic parent relation the map built by
\* buildDescendantMap has one entry per snapshot genre, each a set without
\* repetition; the entry of g holds exactly the snapshot genres from which g
\* is reached by following parent references one or more times; it never
\* holds g, it is empty for a genre without children, and a genre whose
\* parent id is not in the snapshot is in no entry.
C24_DescendantMap ==
  \A s \in Slots :
    (MapBuilt(calls[s]) /\ Acyclic(calls[s].snap)) =>
      LET rows == calls[s].snap
          dm == Val(calls[s].built).dm
      IN /\ DOMAIN dm = Ids(rows)
         /\ \A g \in Ids(rows) :
              /\ Cardinality(Range(dm[g])) = Len(dm[g])
              /\ Range(dm[g]) = {c \in Ids(rows) : g \in Ancestors(rows, c)}
              /\ g \notin Range(dm[g])
              /\ (\A c \in Ids(rows) : RowOf(rows, c).parentGenre # g) => dm[g] = <<>>
         /\ \A c \in Ids(rows) :
              RowOf(rows, c).parentGenre \notin Ids(rows)
                => \A g \in Ids(rows) : c \notin Range(dm[g])

\* C24 witness: the map was built on a snapshot where a genre d, whose
\* parent id is not in the snapshot, has a single child c without children;
\* the entry of d holds c alone, that of c is empty and no entry holds d.
C24_Witness ==
  \E s \in Slots :
    /\ MapBuilt(calls[s])
    /\ Acyclic(calls[s].snap)
    /\ \E c \in GenreIds, d \in GenreIds :
         /\ RowOf(calls[s].snap, c).parentGenre = d
         /\ RowOf(calls[s].snap, d).parentGenre = DanglingId
         /\ Range(Val(calls[s].built).dm[d]) = {c}
         /\ Val(calls[s].built).dm[c] = <<>>
         /\ \A g \in GenreIds : d \notin Range(Val(calls[s].built).dm[g])

\* ------------------------------------------------------------------ C25
\* the books of `found` directly associated with at least one of `ids`
BooksTagged(found, ids) == {x.id : x \in {b \in found : b.advancedGenres \cap ids # {}}}

\* C25: on an acyclic snapshot, for every tagging of the books and every
\* snapshot genre g, the count that calculateAggregatedCounts gives g is the
\* number of distinct books directly associated with at least one id of
\* getGenreIdsWithDescendants([g]).
C25_TraversalsAgree ==
  \A a \in Slots, d \in Slots :
    (/\ Computed(calls[a]) /\ calls[a].op = "calc"
     /\ calls[d].op = "descendants" /\ calls[d].pc = "done" /\ calls[d].status = "ok"
     /\ calls[d].snap = calls[a].snap
     /\ Acyclic(calls[a].snap)
     /\ Len(calls[d].arg) = 1
     /\ calls[d].arg[1] \in Ids(calls[a].snap))
      => Val(calls[a].counts)[calls[d].arg[1]]
           = Cardinality(BooksTagged(calls[a].found, Range(Val(calls[d].result))))

\* C25 witness: both traversals ran on a snapshot where g has a child and a
\* grandchild, one book tagged with g and the other with the grandchild:
\* the expansion of g has three ids and the count of g is two.
C25_Witness ==
  \E a \in Slots, d \in Slots :
    /\ Computed(calls[a]) /\ calls[a].op = "calc"
    /\ calls[d].op = "descendants" /\ calls[d].pc = "done" /\ calls[d].status = "ok"
    /\ calls[d].snap = calls[a].snap
    /\ Acyclic(calls[a].snap)
    /\ \E g \in GenreIds, c \in GenreIds, e \in GenreIds :
         /\ calls[d].arg = <<g>>
         /\ RowOf(calls[a].snap, c).parentGenre = g
         /\ RowOf(calls[a].snap, e).parentGenre = c
         /\ Len(Val(calls[d].result)) = 3
         /\ \E x \in calls[a].found : x.advancedGenres = {g}
         /\ \E x \in calls[a].found : x.advancedGenres = {e}
         /\ Val(calls[a].counts)[g] = 2

\* ------------------------------------------------------------------ C26
\* how often x occurs in the sequence `log`
TimesIn(log, x) == Cardinality({i \in DOMAIN log : log[i] = x})

\* an aggregation that ran on the answer of its book query
Aggregated(f) == f.op = "calc" /\ f.pc = "done" /\ f.via \in {"computed", "overflow"}

\* an expansion of a non-empty id list, which builds the descendants map
Expanded(f) == f.op = "descendants" /\ f.pc = "done" /\ f.arg # <<>>

C27_CacheKeysAreSnapshotIds ==
  ~IsNull(cachedAggregatedCounts) =>
    /\ ~IsNull(genreIdToGenre)
    /\ DOMAIN Val(cachedAggregatedCounts) = Ids(Val(genreIdToGenre))

\* C27 witness: a genre row was deleted, a populate() installed the smaller
\* snapshot while a no-filter aggregation was suspended on its book query,
\* and that aggregation has stored its map since: the cache is keyed by the
\* ids of the smaller snapshot.
C27_Witness ==
  /\ StaleCache
  /\ dbChanges = 1
  /\ Len(Val(genreIdToGenre)) = NumGenres - 1
  /\ DOMAIN Val(cachedAggregatedCounts) = Ids(Val(genreIdToGenre))
  /\ \E s \in Slots : Computed(calls[s]) /\ calls[s].counts = cachedAggregatedCounts

\* ------------------------------------------------------------------ C28
\* the caller in slot s writes into the map it was given, in this step
CallerMutates(s) ==
  /\ calls[s].pc = "done"
  /\ calls'[s].pc = "done"
  /\ calls'[s].counts # calls[s].counts

\* C28: no map that calculateAggregatedCounts returns is the cache object,
\* on the cache-hit path, the fallback path and the path that computes and
\* stores: a caller that writes into the map it was given leaves the cache,
\* and so what a later no-filter call returns, as it was.
C28_ReturnedMapsIsolated ==
  [][\A s \in Slots :
       /\ ~calls'[s].alias
       /\ CallerMutates(s) => cachedAggregatedCounts' = cachedAggregatedCounts]_vars

\* the isolation that does hold: the maps returned by a cache hit and by the
\* connectivity fallback are copies
C28_CopiesOnHitAndFallback ==
  \A s \in Slots : calls[s].alias => (Computed(calls[s]) /\ NoFilter(calls[s].params))

\* the cache holds a value that a caller wrote into the map it was given,
\* and a later no-filter call has been served that value from the cache
C28_Leak ==
  /\ ~IsNull(cachedAggregatedCounts)
  /\ \E g \in GenreIds : Val(cachedAggregatedCounts)[g] = Touched
  /\ \E t \in Slots :
       /\ calls[t].pc = "done" /\ calls[t].via = "hit"
       /\ calls[t].cacheSeen = cachedAggregatedCounts
       /\ calls[t].counts = cachedAggregatedCounts

\* ------------------------------------------------------------------ C29
\* C29: in every forest that getHierarchyTree returns, the numberOfBooks of
\* each node is at least the numberOfBooks of each of its children, also
\* when the genre rows' parent references have changed since the snapshot
\* was populated.
C29_TreeMonotone ==
  \A s \in Slots : TreeBuilt(calls[s]) =>
    LET t == Val(calls[s].result)
        inForest == UNION {ReachableFrom(t, r, Len(calls[s].live)) : r \in Range(t.roots)}
    IN \A p \in inForest : \A c \in Range(t.nodes[p].children) :
         t.nodes[p].numberOfBooks >= t.nodes[c].numberOfBooks

\* what holds: the forest is monotone whenever the rows fetched for the tree
\* have the parent references of the snapshot the counts were computed on
C29_MonotoneOnSnapshotEdges ==
  \A s \in Slots :
    (/\ TreeBuilt(calls[s])
     /\ calls[s].via = "computed"
     /\ \A g \in Ids(calls[s].live) :
          /\ HasId(calls[s].snap, g)
          /\ RowOf(calls[s].snap, g).parentGenre = RowOf(calls[s].live, g).parentGenre)
      => LET t == Val(calls[s].result)
         IN \A p \in DOMAIN t.nodes : \A c \in Range(t.nodes[p].children) :
              t.nodes[p].numberOfBooks >= t.nodes[c].numberOfBooks

\* ------------------------------------------------------------------ C30
\* slot s takes, in this step, a step of populate() in a call whose
\* populate() is under way or fails
PopulateStep(s) ==
  /\ calls'[s] # calls[s]
  /\ calls[s].pc \in {"idle", "popFetch", "popAnswer"}
  /\ \/ calls'[s].pc \in {"popFetch", "popAnswer"}
     \/ calls'[s].status = "thrown" /\ calls'[s].via = "populate"

\* populate() fails in slot s in this step
PopulateFails(s) ==
  /\ calls'[s] # calls[s]
  /\ calls[s].pc # "done"
  /\ calls'[s].status = "thrown" /\ calls'[s].via = "populate"

\* C30: a populate() that fails (the fetch raises, or in development mode
\* the snapshot file cannot be parsed or written) changes neither the id
\* map, nor the slug map, nor the no-filter cache, at any of its steps: a
\* store populated before keeps its snapshot and its cache.
C30_FailedPopulateKeepsStore ==
  [][\A s \in Slots : PopulateStep(s) =>
       /\ genreIdToGenre' = genreIdToGenre
       /\ genreSlugToGenre' = genreSlugToGenre
       /\ cachedAggregatedCounts' = cachedAggregatedCounts
       /\ PopulateFails(s) => (lastPop' = lastPop /\ rets' = rets)]_vars

\* C30 witness: a forced populate() has failed on a store that was
\* populated and had its cache filled; the snapshot and the cache are those
\* of the populate() before it.
C30_Witness ==
  /\ \E s \in Slots :
       /\ calls[s].op = "populate"
       /\ calls[s].status = "thrown" /\ calls[s].via = "populate"
  /\ ~IsNull(genreIdToGenre)
  /\ Val(genreIdToGenre) = Val(lastPop).rows
  /\ Val(genreIdToGenre) # <<>>
  /\ ~IsNull(cachedAggregatedCounts)
  /\ DOMAIN Val(cachedAggregatedCounts) = Ids(Val(genreIdToGenre))

\* C30 witness of the write failure: in development mode a lazy populate()
\* failed writing the snapshot file while the store, populated meanwhile by
\* another call, had its cache filled; both are intact.
C30_WriteFailureSeen ==
  /\ \E s \in Slots :
       /\ calls[s].status = "thrown" /\ calls[s].via = "populate"
       /\ calls[s].error = Some("EIO")
  /\ ~IsNull(genreIdToGenre)
  /\ ~IsNull(cachedAggregatedCounts)

====
